---- MODULE Spec2Model ----
(***************************************************************************)
(* RustAIgent (src/main.rs): the Agent's provider dispatch (send_request), *)
(* its retry loop (request_with_retry) and the concurrent batch            *)
(* (send_batch_requests, clone_for_batch).                                 *)
(*                                                                         *)
(* An agent is a record of the fields of struct Agent that these functions *)
(* read.  Agent 0 is the agent built by main(); agents 1..n are the clones *)
(* that send_batch_requests builds, one per prompt.  A call of             *)
(* send_request is followed from one await point to the next: the request  *)
(* in flight (pc "send"), the backoff sleep (pc "sleep"), the return       *)
(* (pc "done") or the panic (pc "panic").  Every transport attempt and     *)
(* every sleep is written to the call's log, which the properties read.    *)
(***************************************************************************)
EXTENDS Integers, Sequences, FiniteSets, TLC

VARIABLES agents, call, batch

vars == <<agents, call, batch>>

---------------------------------------------------------------------------
(* Bounds of the model *)

\* largest RETRY_COUNT the single-agent specification draws
MaxRetry == 3
\* largest number of send_request calls followed on agent 0
MaxCalls == 2
\* largest length of agent 0's conversation
MaxTurns == 2
\* largest number of prompts of a batch
MaxBatch == 2

(* Program constants *)

DefaultRetryCount == 3
DefaultBackoffBase == 500
DefaultMaxTokens == 1024

---------------------------------------------------------------------------
(* Data *)

\* Option::None of an Option<String> field
None == "None"

\* struct ChatMessage
ChatMessage(role, content, name) ==
    [role |-> role, content |-> content, name |-> name]

\* the system prompt of Agent::new (abbreviated)
SystemPrompt == "You are RustAIgent"

\* the names of the seven FunctionDefinitions of Agent::new
Functions ==
    <<"read_file", "write_file", "delete_file", "list_dir", "run_command",
      "fetch_url", "eval_code">>

\* the provider strings send_request matches on, and one it does not
Providers == {"openai", "claude", "ollama", "google", "other"}

\* Agent::new: the conversation starts with the system turn; the retry
\* count, the backoff base and the Google key come from the environment.
\* env_model_name is no field of struct Agent: it is the MODEL_NAME of the
\* process environment, which send_request reads on every call (line 111).
AgentNew(api_key, provider, google_api_key, retry_count, backoff_base, env_model_name) ==
    [api_key |-> api_key,
     env_model_name |-> env_model_name,
     google_api_key |-> google_api_key,
     provider |-> provider,
     conversation |-> <<ChatMessage("system", SystemPrompt, None)>>,
     functions |-> Functions,
     max_tokens |-> DefaultMaxTokens,
     temperature |-> "0.7",
     retry_count |-> retry_count,
     backoff_base |-> backoff_base]

---------------------------------------------------------------------------
(* Pure parts of send_request *)

\* ModelName reading MODEL_NAME in the fallback arm too
ModelName_EnvInFallback(agent) ==
    CASE agent.provider = "claude" -> "claude-2"
      [] agent.provider = "ollama" -> "rust-ai-agent"
      [] agent.provider = "google" -> "chat-bison-001"
      [] OTHER -> IF agent.env_model_name = None THEN "gpt-4o-mini"
                  ELSE agent.env_model_name

\* lines 110-116: the model name of the common payload
ModelName(agent) ==
    CASE agent.provider = "openai" ->
           IF agent.env_model_name = None THEN "gpt-4o-mini"
           ELSE agent.env_model_name
      [] agent.provider = "claude" -> "claude-2"
      [] agent.provider = "ollama" -> "rust-ai-agent"
      [] agent.provider = "google" -> "chat-bison-001"
      [] OTHER -> "gpt-4o-mini"

\* lines 109-123: ChatCompletionRequest serialised (every Option is Some)
CommonBody(agent, func_call) ==
    [model |-> ModelName(agent),
     messages |-> agent.conversation,
     functions |-> agent.functions,
     function_call |-> IF func_call = None THEN "auto" ELSE func_call,
     max_tokens |-> agent.max_tokens,
     temperature |-> agent.temperature]

\* line 129: "[role] content" of every turn, joined by newlines
RECURSIVE JoinLines(_)
JoinLines(lines) ==
    IF lines = <<>> THEN ""
    ELSE IF Len(lines) = 1 THEN lines[1]
    ELSE lines[1] \o "\n" \o JoinLines(Tail(lines))

AnthropicBody(agent) ==
    [model |-> "claude-2",
     prompt |-> JoinLines([i \in 1..Len(agent.conversation) |->
                   "[" \o agent.conversation[i].role \o "] "
                       \o agent.conversation[i].content]),
     max_tokens_to_sample |-> agent.max_tokens]

\* line 136: the history as {author, content} pairs
GoogleBody(agent) ==
    [messages |-> [i \in 1..Len(agent.conversation) |->
                     [author |-> agent.conversation[i].role,
                      content |-> agent.conversation[i].content]]]

\* RenderBody posting the common payload in the google arm
RenderBody_CommonForGoogle(agent, func_call) ==
    CASE agent.provider = "claude" -> AnthropicBody(agent)
      [] OTHER -> CommonBody(agent, func_call)

\* lines 126-139: the body each provider arm posts
RenderBody(agent, func_call) ==
    CASE agent.provider = "claude" -> AnthropicBody(agent)
      [] agent.provider = "google" -> GoogleBody(agent)
      [] OTHER -> CommonBody(agent, func_call)

\* lines 126-139: the URL each provider arm posts to
DispatchUrl(agent) ==
    CASE agent.provider = "openai" -> "https://api.openai.com/v1/chat/completions"
      [] agent.provider = "claude" -> "https://api.anthropic.com/v1/complete"
      [] agent.provider = "ollama" -> "http://localhost:11434/v1/completions"
      [] agent.provider = "google" ->
           "https://generativelanguage.googleapis.com/v1beta2/models/chat-bison-001:generateMessage?key="
               \o agent.google_api_key
      [] OTHER -> "https://api.openai.com/v1/chat/completions"

---------------------------------------------------------------------------
(* Wire responses *)

\* a JSON null, or a missing key (serde_json indexes both to Null)
JNull == "<null>"

\* choices[i].message as the server sent it
WireMessage(role, content, name) ==
    [role |-> role, content |-> content, name |-> name]

\* a response body that deserialised to a serde_json::Value: the three keys
\* the providers answer with.  choices.is_array is what as_array() tests.
WireResponse(is_array, items, completion, candidates) ==
    [choices |-> [is_array |-> is_array, items |-> items],
     completion |-> completion,
     candidates |-> candidates]

AssistantReply == WireMessage("assistant", "reply", JNull)
ToolReply == WireMessage("tool", "listing", "list_dir")
UserReply == WireMessage("user", "echo", JNull)
\* a function-call answer: its content is null, so it is no ChatMessage
NullContentReply == WireMessage("assistant", JNull, JNull)

\* the response bodies the transport may deliver
Responses ==
    {WireResponse(FALSE, <<>>, JNull, <<>>),
     WireResponse(TRUE, <<>>, JNull, <<>>),
     WireResponse(TRUE, <<[message |-> AssistantReply]>>, JNull, <<>>),
     WireResponse(TRUE, <<[message |-> ToolReply]>>, JNull, <<>>),
     WireResponse(TRUE, <<[message |-> UserReply]>>, JNull, <<>>),
     WireResponse(TRUE, <<[message |-> NullContentReply]>>, JNull, <<>>),
     WireResponse(FALSE, <<>>, "prose", <<>>),
     WireResponse(TRUE, <<>>, "prose", <<>>),
     WireResponse(TRUE, <<[message |-> AssistantReply]>>, "prose", <<>>),
     WireResponse(FALSE, <<>>, JNull,
                  <<[author |-> "1", content |-> "candidate"]>>)}

NoResponse == WireResponse(FALSE, <<>>, JNull, <<>>)

\* what one transport attempt can end in: send() failed (connection error,
\* timeout), send() succeeded and json() failed, or both succeeded
SendErrors == {"ConnErr", "Timeout"}

Outcomes ==
    [kind : SendErrors \cup {"BadBody"}, payload : {NoResponse}]
        \cup [kind : {"Ok"}, payload : Responses]

---------------------------------------------------------------------------
(* Results *)

NoMessage == ChatMessage("", "", None)

Ok(msg) == [ok |-> TRUE, msg |-> msg, err |-> ""]

Err(err) == [ok |-> FALSE, msg |-> NoMessage, err |-> err]

NoResult == Err("")

\* line 143: serde_json::from_value::<ChatMessage>: role and content must be
\* strings, name is optional
FromValue(message) ==
    IF message.role # JNull /\ message.content # JNull
    THEN Ok(ChatMessage(message.role, message.content,
                        IF message.name = JNull THEN None ELSE message.name))
    ELSE Err("serde")

\* lines 141-149: the reply taken from the response
ExtractChatMessage(response_json) ==
    IF response_json.choices.is_array /\ Len(response_json.choices.items) > 0
    THEN FromValue(response_json.choices.items[1].message)
    ELSE IF response_json.completion # JNull
    THEN Ok(ChatMessage("assistant", response_json.completion, None))
    ELSE Err("Unexpected response format")

---------------------------------------------------------------------------
(* request_with_retry *)

RECURSIVE Pow2(_)
Pow2(n) == IF n = 0 THEN 1 ELSE 2 * Pow2(n - 1)

\* Backoff with the exponent one too large
Backoff_ExponentOffByOne(backoff_base, attempt) ==
    backoff_base * Pow2(attempt + 1)

\* line 98: backoff_base * 2u64.pow(attempt)
Backoff(backoff_base, attempt) == backoff_base * Pow2(attempt)

\* RetryMatch with the guard of line 97 off by one: the last attempt's
\* failure sleeps too
RetryMatch_SleepAfterLast(retry_count, backoff_base, attempt, outcome) ==
    CASE outcome.kind \in {"Ok", "BadBody"} ->
           [do |-> "return", ms |-> 0]
      [] outcome.kind \in SendErrors /\ attempt < retry_count ->
           [do |-> "sleep", ms |-> Backoff(backoff_base, attempt)]
      [] OTHER ->
           [do |-> "return", ms |-> 0]

\* RetryMatch retrying a body that deserialised and holds no reply
RetryMatch_RetryMalformed(retry_count, backoff_base, attempt, outcome) ==
    CASE outcome.kind = "Ok" /\ ExtractChatMessage(outcome.payload).ok ->
           [do |-> "return", ms |-> 0]
      [] outcome.kind = "BadBody" ->
           [do |-> "return", ms |-> 0]
      [] attempt < retry_count - 1 ->
           [do |-> "sleep", ms |-> Backoff(backoff_base, attempt)]
      [] OTHER ->
           [do |-> "return", ms |-> 0]

\* lines 95-102: what the loop body does with the outcome of attempt
\* `attempt`: return the payload, return the error, or sleep and go on
RetryMatch(retry_count, backoff_base, attempt, outcome) ==
    CASE outcome.kind = "Ok" ->
           [do |-> "return", ms |-> 0]
      [] outcome.kind = "BadBody" ->
           [do |-> "return", ms |-> 0]
      [] outcome.kind \in SendErrors /\ attempt < retry_count - 1 ->
           [do |-> "sleep", ms |-> Backoff(backoff_base, attempt)]
      [] OTHER ->
           [do |-> "return", ms |-> 0]

\* what request_with_retry returns: Ok(json) or Err(e)
NoReturn == [ok |-> FALSE, json |-> NoResponse, err |-> ""]

\* lines 96 and 101: the value returned on `outcome`: the deserialised
\* body, the error of json(), or the error of send()
RequestReturn(outcome) ==
    CASE outcome.kind = "Ok" ->
           [ok |-> TRUE, json |-> outcome.payload, err |-> ""]
      [] outcome.kind = "BadBody" ->
           [ok |-> FALSE, json |-> NoResponse, err |-> "decode"]
      [] OTHER ->
           [ok |-> FALSE, json |-> NoResponse, err |-> outcome.kind]

\* lines 126-149: send_request passes an error on with `?` and takes the
\* reply from a returned body
SendRequestReturn(returned) ==
    IF returned.ok THEN ExtractChatMessage(returned.json) ELSE Err(returned.err)

\* the log entries
AttemptEvent(idx, outcome, auth) ==
    [ev |-> "attempt", idx |-> idx, kind |-> outcome.kind,
     payload |-> outcome.payload, auth |-> auth, ms |-> 0]

SleepEvent(idx, ms) ==
    [ev |-> "sleep", idx |-> idx, kind |-> "", payload |-> NoResponse,
     auth |-> "", ms |-> ms]

---------------------------------------------------------------------------
(* State *)

\* a call of send_request on one agent:
\*   pc       where the call is: "idle" (none yet), "send" (a request is in
\*            flight), "sleep" (in the backoff sleep), "done" (returned),
\*            "panic" (unreachable!() was reached)
\*   n        how many calls this agent has begun
\*   before   the agent's conversation when the call began
\*   body,url what the call posts and where
\*   attempt  the loop variable of request_with_retry
\*   log      the attempts and sleeps of this call, in order
\*   returned what request_with_retry returned to send_request
\*   result   what the call returned
\*   prev     what the agent's previous call returned
\*   since    turns appended to the agent since its last call began
\*   between  turns appended between the previous call and this one
NoCall ==
    [pc |-> "idle", n |-> 0, func_call |-> None, before |-> <<>>, url |-> "",
     body |-> [model |-> ""], attempt |-> 0, log |-> <<>>,
     returned |-> NoReturn, result |-> NoResult, prev |-> NoResult, since |-> 0, between |-> 0]

\* the call of send_batch_requests: "none" (not called), "running" (the tasks
\* are spawned), "done" (returned `result`); dispatcher is the conversation
\* of agent 0 when it was called
NoBatch ==
    [pc |-> "none", prompts |-> <<>>, dispatcher |-> <<>>,
     result |-> [ok |-> FALSE, results |-> <<>>]]

\* the values of BACKOFF_BASE_MS drawn
BackoffBases == {1, DefaultBackoffBase}

\* the texts of the prompts of a batch, in submission order
PromptTexts == [i \in 1..MaxBatch |-> "prompt" \o ToString(i)]

\* what the tool calling loop may pass as func_call
FuncCalls == {None, "read_file"}

\* the turns the caller appends between calls: the user's input, a tool's
\* output
CallerTurns ==
    {ChatMessage("user", "hello", None),
     ChatMessage("tool", "contents", "read_file")}

\* main() and Agent::new: the agent of the process, nothing sent yet
InitWith(retry_counts, backoff_bases) ==
    /\ \E provider \in Providers, retry_count \in retry_counts,
          backoff_base \in backoff_bases, google_api_key \in {None, "gkey"},
          env_model_name \in {None, "gpt-4o"} :
          /\ google_api_key # None => provider = "google"
          /\ env_model_name # None => provider \in {"openai", "other"}
          /\ agents = (0 :> AgentNew("sk-key", provider, google_api_key,
                                     retry_count, backoff_base,
                                     env_model_name))
    /\ call = (0 :> NoCall)
    /\ batch = NoBatch

\* the values of RETRY_COUNT drawn; unset, it is DefaultRetryCount
RetryCounts == (0..MaxRetry) \cup {DefaultRetryCount}

Init == InitWith(RetryCounts, BackoffBases)

\* the batch is followed for the retry counts that panic, never sleep and
\* sleep once
BatchRetryCounts == {0, 1, 2}

BatchInit == InitWith(BatchRetryCounts, {DefaultBackoffBase})

---------------------------------------------------------------------------
(* send_request and request_with_retry, from await to await *)

\* AfterReturn pushing the message of the result, whatever the result
AfterReturn_Push(agent, result) ==
    [agent EXCEPT !.conversation = Append(@, result.msg)]

\* send_request takes &self: when it returns, whatever it returns, the agent
\* is as it was
AfterReturn(agent, result) == agent

\* lines 107-139 and 89-94: build the payload, pick the provider's arm, and
\* enter the retry loop up to the first send().await
SendRequest(a, func_call) ==
    LET agent == agents[a]
        c == call[a]
        begun == [NoCall EXCEPT !.n = c.n + 1,
                                !.func_call = func_call,
                                !.before = agent.conversation,
                                !.body = RenderBody(agent, func_call),
                                !.prev = c.result,
                                !.between = c.since]
    IN  /\ c.pc \in (IF a = 0 THEN {"idle", "done"} ELSE {"idle"})
        /\ c.n < MaxCalls
        /\ batch.pc = (IF a = 0 THEN "none" ELSE "running")
        /\ IF agent.provider = "google" /\ agent.google_api_key = None
           THEN LET result == Err("Missing GOOGLE_API_KEY")
                IN  /\ call' = [call EXCEPT ![a] =
                                  [begun EXCEPT !.pc = "done", !.result = result]]
                    /\ agents' = [agents EXCEPT ![a] = AfterReturn(agent, result)]
           ELSE /\ call' = [call EXCEPT ![a] =
                              [begun EXCEPT
                                 !.url = DispatchUrl(agent),
                                 !.pc = IF 0 < agent.retry_count
                                        THEN "send" ELSE "panic"]]
                /\ agents' = agents
        /\ UNCHANGED batch

\* lines 94-102 and 141-149: send().await (and json().await) end in
\* `outcome`; the match either sleeps or returns through send_request
TransportCompletes(a) ==
    LET agent == agents[a]
        c == call[a]
    IN  /\ c.pc = "send"
        /\ \E outcome \in Outcomes :
             LET m == RetryMatch(agent.retry_count, agent.backoff_base,
                                 c.attempt, outcome)
                 log == Append(c.log,
                               AttemptEvent(c.attempt, outcome, agent.api_key))
                 returned == RequestReturn(outcome)
                 result == SendRequestReturn(returned)
             IN  IF m.do = "sleep"
                 THEN /\ call' = [call EXCEPT ![a] =
                                    [c EXCEPT
                                       !.pc = "sleep",
                                       !.log = Append(log, SleepEvent(c.attempt, m.ms))]]
                      /\ agents' = agents
                 ELSE /\ call' = [call EXCEPT ![a] =
                                    [c EXCEPT !.pc = "done", !.log = log,
                                              !.returned = returned,
                                              !.result = result]]
                      /\ agents' = [agents EXCEPT ![a] = AfterReturn(agent, result)]
        /\ UNCHANGED batch

\* lines 99 and 90, 104: the sleep ends and the loop goes on to the next
\* attempt, or runs out and reaches unreachable!()
SleepEnds(a) ==
    LET c == call[a]
    IN  /\ c.pc = "sleep"
        /\ call' = [call EXCEPT ![a] =
                      [c EXCEPT !.attempt = c.attempt + 1,
                                !.pc = IF c.attempt + 1 < agents[a].retry_count
                                       THEN "send" ELSE "panic"]]
        /\ UNCHANGED <<agents, batch>>

\* the caller of send_request (run, not in main.rs) appends the user's input
\* or a tool's output to the conversation between two calls
AppendTurn(turn) ==
    /\ call[0].pc \in {"idle", "done"}
    /\ batch.pc = "none"
    /\ Len(agents[0].conversation) < MaxTurns
    /\ agents' = [agents EXCEPT ![0].conversation = Append(@, turn)]
    /\ call' = [call EXCEPT ![0].since = @ + 1]
    /\ UNCHANGED batch

---------------------------------------------------------------------------
(* send_batch_requests *)

\* clone_for_batch seeding the clone with the prompt alone
clone_for_batch_PromptOnly(self, user_input) ==
    [AgentNew(self.api_key, self.provider, self.google_api_key,
              self.retry_count, self.backoff_base, self.env_model_name)
       EXCEPT !.max_tokens = self.max_tokens,
              !.temperature = self.temperature,
              !.functions = self.functions,
              !.conversation = <<ChatMessage("user", user_input, None)>>]

\* lines 170-180: a new agent with the fields of `self` and a conversation
\* of two turns: the first turn of `self` and the prompt
clone_for_batch(self, user_input) ==
    [AgentNew(self.api_key, self.provider, self.google_api_key,
              self.retry_count, self.backoff_base, self.env_model_name)
       EXCEPT !.max_tokens = self.max_tokens,
              !.temperature = self.temperature,
              !.functions = self.functions,
              !.conversation = <<self.conversation[1],
                                 ChatMessage("user", user_input, None)>>]

\* lines 154-159: one clone and one spawned task per prompt, in order
SendBatchRequests(prompts) ==
    /\ batch.pc = "none"
    /\ call[0].pc = "idle"
    /\ agents' = [i \in 0..Len(prompts) |->
                    IF i = 0 THEN agents[0]
                    ELSE clone_for_batch(agents[0], prompts[i])]
    /\ call' = [i \in 0..Len(prompts) |-> IF i = 0 THEN call[0] ELSE NoCall]
    /\ batch' = [NoBatch EXCEPT !.pc = "running", !.prompts = prompts,
                                !.dispatcher = agents[0].conversation]

\* what join_all yields for a task: Ok(Ok(msg)), Ok(Err(e)), or the
\* JoinError of a task that panicked
JoinOutput(c) ==
    IF c.pc = "panic" THEN Err("JoinError") ELSE c.result

\* CollectResults giving up at the first task that did not yield a message
RECURSIVE CollectResults_StopAtFailure(_)
CollectResults_StopAtFailure(outputs) ==
    IF outputs = <<>> \/ ~Head(outputs).ok THEN <<>>
    ELSE <<Head(outputs).msg>> \o CollectResults_StopAtFailure(Tail(outputs))

\* CollectResults listing the last task's message first
CollectResults_Reversed(outputs) ==
    LET kept == SelectSeq(outputs, LAMBDA o : o.ok)
    IN  [i \in 1..Len(kept) |-> kept[Len(kept) + 1 - i].msg]

\* lines 161-166: the messages of the tasks that yielded Ok(Ok(msg)), in the
\* order of the tasks
CollectResults(outputs) ==
    LET kept == SelectSeq(outputs, LAMBDA o : o.ok)
    IN  [i \in 1..Len(kept) |-> kept[i].msg]

\* JoinAll returning as soon as one task has ended
JoinAll_Early ==
    /\ batch.pc = "running"
    /\ \E a \in DOMAIN call \ {0} : call[a].pc \in {"done", "panic"}
    /\ batch' = [batch EXCEPT
                   !.pc = "done",
                   !.result = [ok |-> TRUE,
                               results |-> CollectResults(
                                   [i \in 1..Len(batch.prompts) |->
                                      JoinOutput(call[i])])]]
    /\ UNCHANGED <<agents, call>>

\* lines 162-167: join_all has every task's output; the batch returns
JoinAll ==
    /\ batch.pc = "running"
    /\ \A a \in DOMAIN call \ {0} : call[a].pc \in {"done", "panic"}
    /\ batch' = [batch EXCEPT
                   !.pc = "done",
                   !.result = [ok |-> TRUE,
                               results |-> CollectResults(
                                   [i \in 1..Len(batch.prompts) |->
                                      JoinOutput(call[i])])]]
    /\ UNCHANGED <<agents, call>>

---------------------------------------------------------------------------
(* Specifications *)

\* one agent, its calls one after the other
Next ==
    \/ \E func_call \in FuncCalls : SendRequest(0, func_call)
    \/ TransportCompletes(0)
    \/ SleepEnds(0)
    \/ \E turn \in CallerTurns : AppendTurn(turn)

Spec == Init /\ [][Next]_vars

\* one batch: the spawned tasks run in any interleaving
BatchNext ==
    \/ AppendTurn(ChatMessage("user", "hello", None))
    \/ \E n \in 0..MaxBatch : SendBatchRequests(SubSeq(PromptTexts, 1, n))
    \/ \E a \in DOMAIN agents \ {0} : SendRequest(a, None)
    \/ \E a \in DOMAIN agents \ {0} : TransportCompletes(a)
    \/ \E a \in DOMAIN agents \ {0} : SleepEnds(a)
    \/ JoinAll

BatchSpec == BatchInit /\ [][BatchNext]_vars

\* a step of the spawned task of agent a
TaskStep(a) ==
    /\ a \in DOMAIN agents \ {0}
    /\ \/ SendRequest(a, None)
       \/ TransportCompletes(a)
       \/ SleepEnds(a)

\* the batch of one configuration (provider "openai", MODEL_NAME unset)
FairBatchInit ==
    /\ BatchInit
    /\ agents[0].provider = "openai"
    /\ agents[0].env_model_name = None

\* the batch under the scheduling of the runtime: a spawned task is polled
\* until it ends, every send().await and every sleep().await ends, and the
\* future of join_all is polled until it returns
FairBatchSpec ==
    /\ FairBatchInit
    /\ [][BatchNext]_vars
    /\ \A a \in 1..MaxBatch : WF_vars(TaskStep(a))
    /\ WF_vars(JoinAll)

---------------------------------------------------------------------------
(* request_with_retry in the widths of its integers *)

\* line 58: retry_count is a u8
U8Max == 255

\* line 59: backoff_base, 2u64.pow(..) and their product are u64
U64Bits == 64

\* An unsigned integer is modelled by the set of the positions of its 1 bits:
\* 500 = 2^8 + 2^7 + 2^6 + 2^5 + 2^4 + 2^2.  A value fits a u64 when every
\* position is below U64Bits.
Zero64 == {}

One64 == {0}

FiveHundred64 == {2, 4, 5, 6, 7, 8}

TopBit64 == {U64Bits - 1}

\* the values of BACKOFF_BASE_MS drawn: 0, 1, the default, 2^63
WideBackoffBases == {Zero64, One64, FiveHundred64, TopBit64}

\* the mathematical product of `bits` and 2^k
ShiftLeft(bits, k) == {p + k : p \in bits}

\* the value modulo 2^64
Wrap64(bits) == {p \in bits : p < U64Bits}

\* line 98: self.backoff_base * 2u64.pow(attempt as u32).  An overflow of
\* pow or of the product panics in a build with overflow checks (debug) and
\* wraps modulo 2^64 in one without (release).
Backoff64(backoff_base, attempt, overflow_checks) ==
    LET pow == {attempt}
        wrapped_pow == Wrap64(pow)
        product == IF wrapped_pow = {} THEN {}
                   ELSE ShiftLeft(backoff_base, attempt)
    IN  IF overflow_checks /\ (wrapped_pow # pow \/ Wrap64(product) # product)
        THEN [panic |-> TRUE, pow |-> wrapped_pow, ms |-> {}]
        ELSE [panic |-> FALSE, pow |-> wrapped_pow, ms |-> Wrap64(product)]

\* a call of request_with_retry:
\*   pc       "idle", "send", "sleep", "done" (returned), "overflow" (the
\*            arithmetic of line 98 panicked)
\*   attempt  the loop variable
\*   overflow_checks  whether the build checks integer overflow
\*   pow, ms  2u64.pow(attempt) and the backoff, as last computed
NoWideCall(overflow_checks) ==
    [pc |-> "idle", attempt |-> 0, overflow_checks |-> overflow_checks,
     pow |-> {}, ms |-> {}, ok |-> FALSE]

\* an agent with RETRY_COUNT in 1..255 and BACKOFF_BASE_MS as a u64, in
\* either build
WideInit ==
    /\ \E retry_count \in 1..U8Max, backoff_base \in WideBackoffBases :
          agents = (0 :> AgentNew("sk-key", "openai", None, retry_count,
                                  backoff_base, None))
    /\ \E overflow_checks \in BOOLEAN : call = (0 :> NoWideCall(overflow_checks))
    /\ batch = NoBatch

\* line 90: the loop is entered (retry_count >= 1)
WideBegin ==
    /\ call[0].pc = "idle"
    /\ call' = [call EXCEPT ![0].pc = "send"]
    /\ UNCHANGED <<agents, batch>>

\* line 96: send() succeeded; the call returns what json() gives
WideSendSucceeds ==
    /\ call[0].pc = "send"
    /\ call' = [call EXCEPT ![0].pc = "done", ![0].ok = TRUE]
    /\ UNCHANGED <<agents, batch>>

\* lines 97-101: send() failed; before the last attempt the backoff is
\* computed and slept, on the last attempt the error is returned
WideSendFails ==
    LET agent == agents[0]
        c == call[0]
        backoff == Backoff64(agent.backoff_base, c.attempt, c.overflow_checks)
    IN  /\ c.pc = "send"
        /\ call' = [call EXCEPT ![0] =
                      IF c.attempt < agent.retry_count - 1
                      THEN [c EXCEPT !.pc = IF backoff.panic THEN "overflow"
                                            ELSE "sleep",
                                     !.pow = backoff.pow,
                                     !.ms = backoff.ms]
                      ELSE [c EXCEPT !.pc = "done"]]
        /\ UNCHANGED <<agents, batch>>

\* line 99: the sleep ends and the loop goes to the next attempt
WideSleepEnds ==
    /\ call[0].pc = "sleep"
    /\ call' = [call EXCEPT ![0].pc = "send", ![0].attempt = @ + 1]
    /\ UNCHANGED <<agents, batch>>

WideNext ==
    \/ WideBegin
    \/ WideSendSucceeds
    \/ WideSendFails
    \/ WideSleepEnds

WideSpec == WideInit /\ [][WideNext]_vars

---------------------------------------------------------------------------
(* Reading a call's log *)

Attempts(log) == SelectSeq(log, LAMBDA e : e.ev = "attempt")

Sleeps(log) == SelectSeq(log, LAMBDA e : e.ev = "sleep")

RECURSIVE SumMs(_)
SumMs(events) ==
    IF events = <<>> THEN 0 ELSE Head(events).ms + SumMs(Tail(events))

\* send() returned an error on every attempt of the log
AllSendsFailed(log) ==
    \A i \in 1..Len(log) : log[i].ev = "attempt" => log[i].kind \in SendErrors

\* the call has returned and nothing was appended to the agent since
JustReturned(a) == call[a].pc = "done" /\ call[a].since = 0

---------------------------------------------------------------------------
(* Properties *)

\* C1: after a send_request that returned Ok(reply), the agent's
\* conversation is the conversation before the call with the reply appended,
\* and the reply's role is assistant or tool.
C1_SuccessAppendsReply ==
    \A a \in DOMAIN agents :
        (JustReturned(a) /\ call[a].result.ok) =>
            /\ agents[a].conversation
                   = Append(call[a].before, call[a].result.msg)
            /\ call[a].result.msg.role \in {"assistant", "tool"}

\* C2: after a send_request that failed (the retries ran out, the body did
\* not deserialise, the response held no reply, the key was missing, or the
\* call panicked), the agent's conversation is the conversation before the
\* call.
C2_FailureLeavesHistory ==
    \A a \in DOMAIN agents :
        (/\ call[a].pc \in {"done", "panic"}
         /\ call[a].since = 0
         /\ ~call[a].result.ok) =>
            agents[a].conversation = call[a].before

\* the second call of agent 0 failed on a response without a reply, after a
\* first call whose retries ran out, with a turn appended in between
C2_Witness ==
    /\ call[0].pc = "done"
    /\ call[0].since = 0
    /\ call[0].n = 2
    /\ call[0].prev.err \in SendErrors
    /\ call[0].result.err = "Unexpected response format"
    /\ Len(call[0].before) = 2

C5_MalformedNeverRetried ==
    \A a \in DOMAIN agents :
        LET c == call[a]
        IN  \A i \in 1..Len(c.log) :
                (c.log[i].ev = "attempt" /\ c.log[i].kind = "Ok") =>
                    /\ i = Len(c.log)
                    /\ c.pc = "done"
                    /\ c.result = ExtractChatMessage(c.log[i].payload)
                    /\ ~ExtractChatMessage(c.log[i].payload).ok =>
                           /\ ~c.result.ok
                           /\ c.result.err
                                  \in {"serde", "Unexpected response format"}

\* attempt 0 of a call with retries left brought a body without a reply, and
\* the call returned the error after that one attempt
C5_Witness ==
    /\ agents[0].retry_count = 3
    /\ call[0].pc = "done"
    /\ Len(call[0].log) = 1
    /\ call[0].log[1].kind = "Ok"
    /\ call[0].result = Err("Unexpected response format")

\* C6: a failed attempt that is not the last (a connection error, a timeout,
\* or a body that does not deserialise, on attempt i < retry_count - 1) is
\* followed by a sleep of backoff_base * 2^i ms and then by attempt i + 1; the
\* call does not end on it.
C6_EveryTransportFailureRetried ==
    \A a \in DOMAIN agents :
        LET c == call[a]
            R == agents[a].retry_count
            B == agents[a].backoff_base
        IN  \A i \in 1..Len(c.log) :
                (/\ c.log[i].ev = "attempt"
                 /\ c.log[i].kind \in SendErrors \cup {"BadBody"}
                 /\ c.log[i].idx < R - 1) =>
                    /\ Len(c.log) > i
                    /\ c.log[i + 1] = SleepEvent(c.log[i].idx, B * 2^(c.log[i].idx))
                    /\ Len(c.log) > i + 1 =>
                           /\ c.log[i + 2].ev = "attempt"
                           /\ c.log[i + 2].idx = c.log[i].idx + 1
                    /\ Len(c.log) = i + 1 => c.pc \in {"sleep", "send"}

\* C7: for the provider "openai" a body whose choices is no array or an
\* empty array, and for the provider "claude" a body without a completion
\* string, makes send_request return an error, whatever else the body holds.
C7_MalformedPerVariant ==
    \A a \in DOMAIN agents :
        LET c == call[a]
            json == c.returned.json
        IN  (c.pc = "done" /\ c.returned.ok) =>
                /\ (/\ agents[a].provider = "openai"
                    /\ (~json.choices.is_array \/ json.choices.items = <<>>)) =>
                       ~c.result.ok
                /\ (/\ agents[a].provider = "claude"
                    /\ json.completion = JNull) =>
                       ~c.result.ok

\* the tasks of the batch, and those that returned Ok(msg)
Tasks == 1..Len(batch.prompts)

TaskOk(a) == call[a].pc = "done" /\ call[a].result.ok

\* how often `msg` occurs in `msgs`
Count(msgs, msg) == Cardinality({i \in 1..Len(msgs) : msgs[i] = msg})

\* C8: send_batch_requests returns Ok, with as many messages as tasks
\* returned Ok(msg): each such task's message once, and nothing for a task
\* that returned an error or panicked.
C8_BatchDropsFailures ==
    batch.pc = "done" =>
        /\ batch.result.ok
        /\ Len(batch.result.results)
               = Len(batch.prompts) - Cardinality({a \in Tasks : ~TaskOk(a)})
        /\ \A a \in Tasks :
               TaskOk(a) =>
                   Count(batch.result.results, call[a].result.msg)
                       = Cardinality({b \in Tasks :
                             TaskOk(b) /\ call[b].result.msg = call[a].result.msg})

\* a batch of two prompts whose first task ran out of retries and whose
\* second task returned a reply: one result, the second task's
C8_Witness ==
    /\ batch.pc = "done"
    /\ Len(batch.prompts) = 2
    /\ call[1].pc = "done"
    /\ call[1].result.err \in SendErrors
    /\ Len(Attempts(call[1].log)) = 2
    /\ TaskOk(2)
    /\ batch.result.results = <<call[2].result.msg>>

\* C9: every task's agent starts from two turns, the dispatcher's system
\* turn and its own prompt; when the batch has returned, the conversation of
\* each task that returned Ok(msg) is those two turns and its reply, no
\* conversation holds another task's prompt, and the dispatcher's
\* conversation is as it was.
C9_BatchHistories ==
    /\ batch.pc # "none" =>
           /\ agents[0].conversation = batch.dispatcher
           /\ \A a \in Tasks :
                  /\ call[a].pc # "idle" =>
                         call[a].before
                             = <<batch.dispatcher[1],
                                 ChatMessage("user", batch.prompts[a], None)>>
                  /\ \A b \in Tasks \ {a} :
                         \A i \in 1..Len(agents[a].conversation) :
                             agents[a].conversation[i].content # batch.prompts[b]
    /\ batch.pc = "done" =>
           \A a \in Tasks :
               TaskOk(a) =>
                   agents[a].conversation
                       = <<batch.dispatcher[1],
                           ChatMessage("user", batch.prompts[a], None),
                           call[a].result.msg>>

\* C10: when two consecutive calls of send_request on agent 0 both return
\* Ok, the conversation the second call renders holds the reply of the
\* first, as its last turn if nothing was appended between the two calls.
C10_NextRequestSeesReply ==
    LET c == call[0]
    IN  (c.n >= 2 /\ c.prev.ok /\ c.pc = "done" /\ c.result.ok) =>
            /\ \E i \in 1..Len(c.before) : c.before[i] = c.prev.msg
            /\ c.between = 0 => c.before[Len(c.before)] = c.prev.msg

\* C11: a spawned task is never cancelled: once begun, its call stays begun
\* and goes on from where it was; send_batch_requests returns only when every
\* task has returned or panicked (returned, when retry_count >= 1); and when
\* every send() and every sleep ends, a batch that was launched returns.
C11_BatchRunsToCompletion ==
    /\ [](batch.pc = "done" =>
            \A a \in Tasks :
                /\ call[a].pc \in {"done", "panic"}
                /\ agents[a].retry_count >= 1 => call[a].pc = "done")
    /\ [][\A a \in DOMAIN call \ {0} :
              /\ a \in DOMAIN call'
              /\ call[a].pc \in {"done", "panic"} => call'[a] = call[a]
              /\ call'[a].n >= call[a].n
              /\ Len(call'[a].log) >= Len(call[a].log)]_vars
    /\ (batch.pc = "running") ~> (batch.pc = "done")

\* a batch of two prompts has returned; the first task slept once and then
\* ran out of retries, the second returned a reply
C11_Witness ==
    /\ batch.pc = "done"
    /\ Len(batch.prompts) = 2
    /\ call[1].pc = "done"
    /\ Len(Sleeps(call[1].log)) = 1
    /\ call[1].result.err \in SendErrors
    /\ TaskOk(2)

\* C12: no attempt of an agent of the provider "google" or "ollama" carries
\* a bearer token: the header is attached only for the providers that
\* authenticate with it.
C12_BearerOnlyForBearerVariants ==
    \A a \in DOMAIN agents :
        agents[a].provider \in {"google", "ollama"} =>
            \A i \in 1..Len(call[a].log) :
                call[a].log[i].ev = "attempt" => call[a].log[i].auth = ""

\* C13: for the provider "google", a response body that holds a candidate
\* makes send_request return the assistant turn with the first candidate's
\* content.
C13_GoogleFirstCandidate ==
    \A a \in DOMAIN agents :
        LET c == call[a]
            json == c.returned.json
        IN  (/\ agents[a].provider = "google"
             /\ c.pc = "done"
             /\ c.returned.ok
             /\ json.candidates # <<>>) =>
                c.result = Ok(ChatMessage("assistant",
                                          json.candidates[1].content, None))

\* whether s is a prefix of t
IsPrefix(s, t) == Len(s) <= Len(t) /\ SubSeq(t, 1, Len(s)) = s

\* C14: the conversation of every agent, the clones of a batch included,
\* begins with the system turn made by Agent::new and holds no other system
\* turn; no step removes an agent or a turn or changes a turn: an agent's
\* conversation before a step is a prefix of its conversation after it.
C14_HistoryOnlyGrows ==
    /\ [](\A a \in DOMAIN agents :
            LET conversation == agents[a].conversation
            IN  /\ Len(conversation) >= 1
                /\ conversation[1] = ChatMessage("system", SystemPrompt, None)
                /\ \A i \in 2..Len(conversation) :
                       conversation[i].role # "system")
    /\ [][\A a \in DOMAIN agents :
              /\ a \in DOMAIN agents'
              /\ IsPrefix(agents[a].conversation, agents'[a].conversation)]_vars

\* the dispatcher's conversation has grown by the user's turn, a batch was
\* launched after that, and a clone's call has returned a reply
C14_Witness ==
    /\ Len(agents[0].conversation) = 2
    /\ batch.pc = "done"
    /\ Len(batch.prompts) = 2
    /\ TaskOk(1)
    /\ Len(agents[1].conversation) = 2
    /\ agents[1].conversation[1] = agents[0].conversation[1]

\* the agents of a provider that send_request has no arm for
Unknown(a) == agents[a].provider \notin {"openai", "claude", "ollama", "google"}

\* the agent a as it was when its call began, had it been made with the
\* provider "openai" and MODEL_NAME unset
AsOpenAIDefault(a) ==
    [agents[a] EXCEPT !.provider = "openai", !.env_model_name = None,
                      !.conversation = call[a].before]

\* C15: send_request of an agent of an unknown provider, whatever MODEL_NAME
\* is, posts the model "gpt-4o-mini", the body and the URL that an "openai"
\* agent with MODEL_NAME unset posts for the same conversation and func_call,
\* reads the reply out of a response as that agent does, and never returns
\* without having posted.
C15_UnknownProviderIsOpenAI ==
    \A a \in DOMAIN agents :
        LET c == call[a]
        IN  (Unknown(a) /\ c.pc # "idle") =>
                /\ c.body.model = "gpt-4o-mini"
                /\ c.body = RenderBody(AsOpenAIDefault(a), c.func_call)
                /\ DOMAIN c.body = {"model", "messages", "functions",
                                    "function_call", "max_tokens",
                                    "temperature"}
                /\ c.url = "https://api.openai.com/v1/chat/completions"
                /\ c.url = DispatchUrl(AsOpenAIDefault(a))
                /\ (c.pc = "done" /\ agents[a].retry_count >= 1) =>
                       /\ Attempts(c.log) # <<>>
                       /\ c.result = SendRequestReturn(c.returned)
                       /\ c.returned.ok =>
                              c.result = ExtractChatMessage(c.returned.json)

\* an agent of an unknown provider, with MODEL_NAME set, was called with a
\* forced function on a conversation of two turns and got a reply
C15_Witness ==
    /\ Unknown(0)
    /\ agents[0].env_model_name # None
    /\ call[0].pc = "done"
    /\ call[0].func_call # None
    /\ Len(call[0].before) = 2
    /\ call[0].result.ok

\* C16: no send_request is ever begun on an agent of the provider "google"
\* that was made without GOOGLE_API_KEY (were no such agent ever made, none
\* could begin a call).
C16_NoCallWithoutCredential ==
    \A a \in DOMAIN agents :
        (agents[a].provider = "google" /\ agents[a].google_api_key = None) =>
            call[a].n = 0

\* C17: the body posted for an agent of the provider "google" has the one
\* key "messages" (no functions, function_call, max_tokens, temperature or
\* model, though the agent has functions), and its messages are the turns of
\* the conversation in order, each as {author: role, content: content}.
C17_GoogleBodyIsMessagesOnly ==
    \A a \in DOMAIN agents :
        LET c == call[a]
        IN  (agents[a].provider = "google" /\ c.url # "") =>
                /\ agents[a].functions # <<>>
                /\ DOMAIN c.body = {"messages"}
                /\ DOMAIN c.body.messages = 1..Len(c.before)
                /\ \A i \in 1..Len(c.before) :
                       /\ DOMAIN c.body.messages[i] = {"author", "content"}
                       /\ c.body.messages[i].author = c.before[i].role
                       /\ c.body.messages[i].content = c.before[i].content

\* a request of a "google" agent with a forced function and a conversation
\* that ends in a tool turn was posted
C17_Witness ==
    /\ agents[0].provider = "google"
    /\ call[0].func_call # None
    /\ Len(Attempts(call[0].log)) >= 1
    /\ Len(call[0].before) = 2
    /\ call[0].before[2].role = "tool"

\* C18: whatever retry_count is, 0 included, no call reaches the
\* unreachable!() after the loop of request_with_retry, and a call that
\* posted and returned has made at least one attempt.
C18_UnreachableNeverReached ==
    \A a \in DOMAIN agents :
        /\ call[a].pc # "panic"
        /\ (call[a].pc = "done" /\ call[a].url # "") =>
               Attempts(call[a].log) # <<>>

\* C19: for retry_count in 1..255 and every backoff_base, the arithmetic of
\* the backoff never panics, and the backoff slept after failed attempt i is
\* the mathematical backoff_base * 2^i, with 2u64.pow(i) the mathematical
\* 2^i.
C19_BackoffNeverOverflows ==
    /\ call[0].pc # "overflow"
    /\ call[0].pc = "sleep" =>
           /\ call[0].pow = {call[0].attempt}
           /\ call[0].ms = ShiftLeft(agents[0].backoff_base, call[0].attempt)

\* the replies of the first n prompts, in the order of the prompts
RECURSIVE RepliesInOrder(_)
RepliesInOrder(n) ==
    IF n = 0 THEN <<>>
    ELSE RepliesInOrder(n - 1)
             \o (IF TaskOk(n) THEN <<call[n].result.msg>> ELSE <<>>)

\* C20: in whatever order the tasks ended, the messages send_batch_requests
\* returns are the replies of the tasks that returned Ok, in the order of
\* their prompts.
C20_ResultsInSubmissionOrder ==
    batch.pc = "done" =>
        batch.result.results = RepliesInOrder(Len(batch.prompts))

\* both tasks of a batch returned a reply, the first only at its second
\* attempt and the second at its first, and the replies differ
C20_Witness ==
    /\ batch.pc = "done"
    /\ Len(batch.prompts) = 2
    /\ TaskOk(1)
    /\ TaskOk(2)
    /\ Len(Attempts(call[1].log)) = 2
    /\ Len(Attempts(call[2].log)) = 1
    /\ call[1].result.msg # call[2].result.msg
    /\ batch.result.results = <<call[1].result.msg, call[2].result.msg>>

====
